---------------------------- MODULE Spec2Model ----------------------------
(***************************************************************************)
(* Model of the two pipeline drivers of spatial_scripts:                   *)
(*   slrspatial.py  process_images   (index-based pairing, rotation, ...)  *)
(*   a16spatial.py  main             (lens correction, identifier-based    *)
(*                                    pairing, alignment, ...)             *)
(* A filename is a sequence of one-character strings, so that sorting,     *)
(* pattern matching and formatting are computed as the code computes them. *)
(***************************************************************************)
EXTENDS Integers, Sequences, FiniteSets, TLC

(***************************************************************************)
(* Characters and strings                                                  *)
(***************************************************************************)
\* The characters that occur in the modelled filenames, in code-point order.
CodeOrder ==
  << "-", ".",
     "0", "1", "2", "3", "4", "5", "6", "7", "8", "9",
     "A", "B", "C", "D", "E", "F", "G", "H", "I", "J", "K", "L", "M",
     "N", "O", "P", "Q", "R", "S", "T", "U", "V", "W", "X", "Y", "Z",
     "_",
     "a", "b", "c", "d", "e", "f", "g", "h", "i", "j", "k", "l", "m",
     "n", "o", "p", "q", "r", "s", "t", "u", "v", "w", "x", "y", "z",
     "sup2" >>

\* U+00B2 SUPERSCRIPT TWO: str.isdigit() is true of it, the pattern \d does not
\* match it and int() rejects it
SupTwo == "sup2"

Ord(c) == CHOOSE i \in 1..Len(CodeOrder) : CodeOrder[i] = c

Digits == {"0", "1", "2", "3", "4", "5", "6", "7", "8", "9"}

UpperCase ==
  {"A", "B", "C", "D", "E", "F", "G", "H", "I", "J", "K", "L", "M",
   "N", "O", "P", "Q", "R", "S", "T", "U", "V", "W", "X", "Y", "Z"}

IsDigit(c) == c \in Digits

IsUpper(c) == c \in UpperCase

\* the value of a digit: its distance from "0"
DigitVal(c) == Ord(c) - Ord("0")

\* str.lower() on one character: an upper-case letter moves to its lower-case
\* twin, "a" - "A" code points further on
LowerChar(c) == IF IsUpper(c) THEN CodeOrder[Ord(c) + (Ord("a") - Ord("A"))] ELSE c

\* str.lower()
Lower(s) == [i \in 1..Len(s) |-> LowerChar(s[i])]

\* str.isdigit(): non-empty and every character a digit of any kind
StrIsDigit(s) == s # <<>> /\ \A i \in 1..Len(s) : (IsDigit(s[i]) \/ s[i] = SupTwo)

\* a non-empty run of decimal digits: what \d+ matches and int() accepts
IsDigitStr(s) == s # <<>> /\ \A i \in 1..Len(s) : IsDigit(s[i])

\* int(text) of a digit string
IntOf(s) ==
  LET val[k \in 0..Len(s)] == IF k = 0 THEN 0 ELSE 10 * val[k - 1] + DigitVal(s[k])
  IN  val[Len(s)]

\* str.endswith(suffix)
EndsWith(s, suffix) ==
  \E t \in {s} :
    /\ Len(suffix) <= Len(t)
    /\ SubSeq(t, Len(t) - Len(suffix) + 1, Len(t)) = suffix

\* str.startswith at position i (1-based): s[i..] begins with t
HasAt(s, i, t) ==
  /\ i + Len(t) - 1 <= Len(s)
  /\ SubSeq(s, i, i + Len(t) - 1) = t

\* lexicographic comparison of two strings by code point: s < t
RECURSIVE StrLess(_, _)
StrLess(s, t) ==
  IF t = <<>> THEN FALSE
  ELSE IF s = <<>> THEN TRUE
  ELSE IF s[1] # t[1] THEN Ord(s[1]) < Ord(t[1])
  ELSE StrLess(Tail(s), Tail(t))

\* literal pieces of filenames
DotJpg == << ".", "j", "p", "g" >>
DotJpeg == << ".", "j", "p", "e", "g" >>
DotTiff == << ".", "t", "i", "f", "f" >>
DotHeic == << ".", "h", "e", "i", "c" >>
DashCorrected == << "-", "c", "o", "r", "r", "e", "c", "t", "e", "d" >>
DashSbs == << "-", "s", "b", "s" >>

(***************************************************************************)
(* slrspatial.py: natural_sort_key and the sort that uses it               *)
(***************************************************************************)
\* number of leading characters of s whose IsDigit value is d
LeadLen(s, d) ==
  IF \E k \in 1..Len(s) : IsDigit(s[k]) # d
  THEN (CHOOSE k \in 1..Len(s) :
          /\ IsDigit(s[k]) # d
          /\ \A j \in 1..(k - 1) : IsDigit(s[j]) = d) - 1
  ELSE Len(s)

\* re.split(r'(\d+)', s): text, digits, text, digits, ..., text
RECURSIVE ReSplit(_)
ReSplit(s) ==
  LET n    == LeadLen(s, FALSE)
      rest == SubSeq(s, n + 1, Len(s))
      m    == LeadLen(rest, TRUE)
  IN  IF rest = <<>> THEN << SubSeq(s, 1, n) >>
      ELSE << SubSeq(s, 1, n), SubSeq(rest, 1, m) >>
             \o ReSplit(SubSeq(rest, m + 1, Len(rest)))

\* one element of the key: int(text) if text.isdigit() else text.lower()
\* a variant that keeps digit runs as text
KeyPart_DigitsAsText(text) == [int |-> FALSE, n |-> 0, s |-> Lower(text)]

\* int(text) of a text that is no run of decimal digits raises ValueError
KeyPart(text) ==
  IF StrIsDigit(text)
  THEN (IF IsDigitStr(text) THEN [int |-> TRUE, n |-> IntOf(text), s |-> <<>>]
        ELSE [int |-> TRUE, n |-> -1, s |-> << "ValueError" >>])
  ELSE [int |-> FALSE, n |-> 0, s |-> Lower(text)]

natural_sort_key(s) ==
  LET parts == ReSplit(s) IN [k \in 1..Len(parts) |-> KeyPart(parts[k])]

\* whether natural_sort_key(s) raises ValueError instead of returning a key
KeyRaises(s) ==
  \E k \in 1..Len(natural_sort_key(s)) : natural_sort_key(s)[k].s = << "ValueError" >>

\* Python's comparison of two key lists: the first unequal pair decides, and an
\* int against a str raises TypeError
RECURSIVE KeyCmp(_, _)
KeyCmp(k1, k2) ==
  IF k1 = <<>> /\ k2 = <<>> THEN "eq"
  ELSE IF k1 = <<>> THEN "lt"
  ELSE IF k2 = <<>> THEN "gt"
  ELSE IF k1[1] = k2[1] THEN KeyCmp(Tail(k1), Tail(k2))
  ELSE IF k1[1].int # k2[1].int THEN "TypeError"
  ELSE IF k1[1].int THEN (IF k1[1].n < k2[1].n THEN "lt" ELSE "gt")
  ELSE IF StrLess(k1[1].s, k2[1].s) THEN "lt" ELSE "gt"

\* list.sort(key=natural_sort_key): stable, equal keys keep the listing's order
RECURSIVE NaturalSorted(_)
NaturalSorted(lst) ==
  IF lst = <<>> THEN <<>>
  ELSE LET x     == lst[Len(lst)]
           front == NaturalSorted(SubSeq(lst, 1, Len(lst) - 1))
           pos   == Cardinality({j \in 1..Len(front) :
                       KeyCmp(natural_sort_key(x), natural_sort_key(front[j])) # "lt"})
       IN  SubSeq(front, 1, pos) \o << x >> \o SubSeq(front, pos + 1, Len(front))

\* f.lower().endswith(image_extensions)
IsImage(f) ==
  \/ EndsWith(Lower(f), DotJpg)
  \/ EndsWith(Lower(f), DotJpeg)
  \/ EndsWith(Lower(f), << ".", "J", "P", "G" >>)
  \/ EndsWith(Lower(f), << ".", "J", "P", "E", "G" >>)

\* the list comprehension: the listing's entries that are image files, in order
RECURSIVE ImagesOf(_)
ImagesOf(listing) ==
  IF listing = <<>> THEN <<>>
  ELSE IF IsImage(listing[1]) THEN << listing[1] >> \o ImagesOf(Tail(listing))
  ELSE ImagesOf(Tail(listing))

\* orientation_to_jpegtran_arg: the table's .get(orientation)
NoTransform == << >>

\* a variant that exchanges the quarter turns
orientation_to_jpegtran_arg_QuarterTurnsSwapped(orientation) ==
  CASE orientation = 2 -> << "-flip", "horizontal" >>
    [] orientation = 3 -> << "-rotate", "180" >>
    [] orientation = 4 -> << "-flip", "vertical" >>
    [] orientation = 5 -> << "-transpose" >>
    [] orientation = 6 -> << "-rotate", "270" >>
    [] orientation = 7 -> << "-transverse" >>
    [] orientation = 8 -> << "-rotate", "90" >>
    [] OTHER -> NoTransform

orientation_to_jpegtran_arg(orientation) ==
  CASE orientation = 2 -> << "-flip", "horizontal" >>
    [] orientation = 3 -> << "-rotate", "180" >>
    [] orientation = 4 -> << "-flip", "vertical" >>
    [] orientation = 5 -> << "-transpose" >>
    [] orientation = 6 -> << "-rotate", "90" >>
    [] orientation = 7 -> << "-transverse" >>
    [] orientation = 8 -> << "-rotate", "270" >>
    [] OTHER -> NoTransform

\* os.path.splitext(name)[0]: the name up to its last dot (a leading dot is no
\* extension)
Stem(name) ==
  LET dots == {k \in 2..Len(name) : name[k] = "." /\ \E j \in 1..(k - 1) : name[j] # "."}
  IN  IF dots = {} THEN name
      ELSE SubSeq(name, 1, (CHOOSE k \in dots : \A j \in dots : j <= k) - 1)

\* os.path.splitext(name)[1], pathlib's suffix
Suffix(name) == SubSeq(name, Len(Stem(name)) + 1, Len(name))

(***************************************************************************)
(* a16spatial.py: the filename pattern of match_and_rename_files           *)
(***************************************************************************)
NoMatch == [matched |-> FALSE, prefix |-> <<>>, number |-> <<>>, extension |-> <<>>]

\* the places where `-(\d+)-corrected\.(.+)` can follow a non-empty prefix s[1..k]
PatternEnds(s) ==
  {k \in 1..Len(s) :
     /\ k + 1 <= Len(s)
     /\ s[k + 1] = "-"
     /\ LET rest == SubSeq(s, k + 2, Len(s))
            m    == LeadLen(rest, TRUE)
        IN  /\ m >= 1
            /\ HasAt(rest, m + 1, DashCorrected \o << "." >>)
            /\ m + Len(DashCorrected) + 1 < Len(rest)}

\* pattern.match(filename) for r'(.+)-(\d+)-corrected\.(.+)': the first group is
\* greedy, so the last place the rest can match is taken
PatternMatch(s) ==
  LET ends == PatternEnds(s)
      groups[k \in ends] ==
        LET rest == SubSeq(s, k + 2, Len(s))
            m    == LeadLen(rest, TRUE)
        IN  [matched   |-> TRUE,
             prefix    |-> SubSeq(s, 1, k),
             number    |-> SubSeq(rest, 1, m),
             extension |-> SubSeq(rest, m + Len(DashCorrected) + 2, Len(rest))]
  IN  IF ends = {} THEN NoMatch
      ELSE groups[CHOOSE x \in ends : \A y \in ends : y <= x]

\* f"{new_prefix}-{number}-corrected.{extension}"
NewFilename(new_prefix, number, extension) ==
  new_prefix \o << "-" >> \o number \o DashCorrected \o << "." >> \o extension

(***************************************************************************)
(* The file system: a directory maps each filename in it to the content    *)
(* stored under that name                                                  *)
(***************************************************************************)
EmptyDir == [n \in {} |-> <<>>]

Put(d, name, content) ==
  [n \in (DOMAIN d) \cup {name} |-> IF n = name THEN content ELSE d[n]]

Remove(d, name) == [n \in (DOMAIN d) \ {name} |-> d[n]]

\* os.rename(src, dst) inside one directory.  POSIX replaces an existing dst;
\* Windows raises FileExistsError; a missing src raises FileNotFoundError.
OsRename(d, src, dst, plat) ==
  IF src \notin DOMAIN d THEN [fs |-> d, exc |-> "FileNotFoundError"]
  ELSE IF plat = "nt" /\ dst \in DOMAIN d /\ dst # src
       THEN [fs |-> d, exc |-> "FileExistsError"]
  ELSE [fs |-> Put(Remove(d, src), dst, d[src]), exc |-> "none"]

\* shutil.move(src, dst) of a file inside one directory: os.rename, and where
\* that raises OSError for an existing dst, copy over dst and unlink src
ShutilMove(d, src, dst) ==
  IF src \notin DOMAIN d THEN [fs |-> d, exc |-> "FileNotFoundError"]
  ELSE [fs |-> Put(Remove(d, src), dst, d[src]), exc |-> "none"]

\* the orders in which os.listdir may return the entries of a directory
Listings(names) ==
  {l \in [1..Cardinality(names) -> names] : \A a, b \in 1..Cardinality(names) : l[a] = l[b] => a = b}

(***************************************************************************)
(* State                                                                   *)
(***************************************************************************)
VARIABLES
  prog,            \* which driver runs: "slr" (slrspatial.py) or "a16" (a16spatial.py)
  platform,        \* "posix" or "nt": decides what os.rename does on an existing target
  move_faults,     \* whether the OS may refuse a shutil.move (PermissionError, ...)
  spatial_params,  \* slrspatial: FALSE when --skip-spatial was given
  pc,              \* the driver's position
  status,          \* "running", "exit1" (sys.exit(1)), "returned", "crashed", "done"
  exists_a,        \* os.path.isdir(folder1 / left / dir_a)
  exists_b,        \* os.path.isdir(folder2 / right / dir_b)
  dir_a,           \* folder1 / left: filename -> content
  dir_b,           \* folder2 / right: filename -> content
  cwd,             \* the current directory: rotated.jpg, the moved .heic files
  folder1_images,  \* slrspatial: the sorted image list of folder1
  folder2_images,  \* slrspatial: the image list of folder2
  i,               \* index of the running loop over folder1_images / folder2_images
  todo,            \* the files a running loop has still to visit
  files_a,         \* match_and_rename_files: number -> [filename, prefix, extension]
  order_a,         \* the order in which dir_a's listing enumerated its files
  run,             \* how many calls of match_and_rename_files have started
  success_count,   \* success_count / renamed_count of the running batch
  skipped_count,
  error_count,     \* error_count / errors_count of the running batch
  reported,        \* the messages printed so far: [kind, what]
  count_report,    \* the two image counts a count mismatch printed, else << >>
  renames,         \* the renames performed in dir_b, in order: << src, dst >>
  cmds,            \* the external commands the last step invoked
  tool_calls,      \* the number of external commands invoked so far
  stages,          \* the stages started so far, in order
  dir_b0           \* dir_b as it was before pairing

vars ==
  << prog, platform, move_faults, spatial_params, pc, status, exists_a, exists_b,
     dir_a, dir_b, cwd, folder1_images, folder2_images, i, todo, files_a, order_a,
     run, success_count, skipped_count, error_count, reported, count_report,
     renames, cmds, tool_calls, stages, dir_b0 >>

\* the content of an input file: which side it came from and its original name
File(side, name) == [side |-> side, orig |-> name, state |-> << "raw" >>]

\* a directory holding the given input files
DirOf(side, names) == [n \in names |-> File(side, n)]

\* the subsets of a pool with at most k files
UpTo(pool, k) == {S \in SUBSET pool : Cardinality(S) <= k}

\* outcomes of one external command: exit 0, nonzero exit (CalledProcessError),
\* executable missing (FileNotFoundError)
Outcomes == {"ok", "fail", "notfound"}

\* an external command as invoked, and what the program read from its output
Cmd(tool, arg, target) == [tool |-> tool, arg |-> arg, target |-> target, out |-> <<>>]

Msg(kind, what) == [kind |-> kind, what |-> what]

(***************************************************************************)
(* Bounds and the filenames the directories are drawn from                 *)
(***************************************************************************)
MaxFiles == 2

Name(stem, ext) == stem \o ext

SlrPool1 ==
  { Name(<< "a", "1" >>, DotJpg), Name(<< "a", "2" >>, DotJpg),
    << "n", ".", "t", "x", "t" >> }

SlrPool2 ==
  { Name(<< "a", "0" >>, DotJpg), Name(<< "a", "1" >>, DotJpg),
    Name(<< "a", "0", "1" >>, DotJpg), Name(<< "z", "1" >>, DotJpg),
    Name(<< "z", "9" >>, DotJpg) }

\* what `exiftool -Orientation# -s -s -s` may print: a value 1..8, another
\* number, or nothing (the tag is absent)
OrientationOutputs ==
  { << "1" >>, << "2" >>, << "3" >>, << "4" >>, << "5" >>, << "6" >>, << "7" >>,
    << "8" >>, << "9" >>, << >> }

RotatedJpg == << "r", "o", "t", "a", "t", "e", "d" >> \o DotJpg

(***************************************************************************)
(* slrspatial.py: process_images                                           *)
(***************************************************************************)
\* variables of the a16spatial driver, which process_images never touches
a16_vars ==
  << todo, files_a, order_a, run, success_count, skipped_count, error_count >>

\* the run's fixed inputs
env_vars == << prog, platform, move_faults, spatial_params, exists_a, exists_b >>

\* an uncaught exception ends the process with a traceback
Crashed(exc) ==
  /\ pc' = "crashed"
  /\ status' = "crashed"
  /\ reported' = reported \cup {Msg("Traceback", << exc >>)}

\* a variant that checks folder1 only
SlrCheckFolders_Folder1Only ==
  /\ prog = "slr" /\ pc = "start"
  /\ IF ~exists_a
     THEN /\ reported' = reported \cup {Msg("Error: Folder doesn't exist", << "folder1" >>)}
          /\ status' = "exit1" /\ pc' = "exited"
     ELSE /\ pc' = "list"
          /\ UNCHANGED << reported, status >>
  /\ UNCHANGED << env_vars, count_report, a16_vars, dir_a, dir_b, cwd, folder1_images,
                  folder2_images, i, renames, cmds, tool_calls, stages, dir_b0 >>

\* lines 52-58: a missing folder is fatal
SlrCheckFolders ==
  /\ prog = "slr" /\ pc = "start"
  /\ IF ~exists_a
     THEN /\ reported' = reported \cup {Msg("Error: Folder doesn't exist", << "folder1" >>)}
          /\ status' = "exit1" /\ pc' = "exited"
     ELSE IF ~exists_b
     THEN /\ reported' = reported \cup {Msg("Error: Folder doesn't exist", << "folder2" >>)}
          /\ status' = "exit1" /\ pc' = "exited"
     ELSE /\ pc' = "list"
          /\ UNCHANGED << reported, status >>
  /\ UNCHANGED << env_vars, count_report, a16_vars, dir_a, dir_b, cwd, folder1_images,
                  folder2_images, i, renames, cmds, tool_calls, stages, dir_b0 >>

\* lines 60-81: list both folders, sort naturally, compare the counts
SlrList ==
  /\ prog = "slr" /\ pc = "list"
  /\ \E l1 \in Listings(DOMAIN dir_a), l2 \in Listings(DOMAIN dir_b) :
       IF \E k \in 1..Len(l1) : IsImage(l1[k]) /\ KeyRaises(l1[k])
       THEN \* folder1_images.sort raises in natural_sort_key
            /\ Crashed("ValueError")
            /\ UNCHANGED << folder1_images, folder2_images, count_report, stages >>
       ELSE IF \E k \in 1..Len(l2) : IsImage(l2[k]) /\ KeyRaises(l2[k])
       THEN \* folder2_images.sort raises in natural_sort_key
            /\ Crashed("ValueError")
            /\ folder1_images' = NaturalSorted(ImagesOf(l1))
            /\ UNCHANGED << folder2_images, count_report, stages >>
       ELSE
       LET f1 == NaturalSorted(ImagesOf(l1))
           f2 == NaturalSorted(ImagesOf(l2))
       IN  /\ folder1_images' = f1
           /\ folder2_images' = f2
           /\ IF Len(f1) # Len(f2)
              THEN /\ reported' = reported \cup
                        {Msg("Error: Folders have different number of images", <<>>)}
                   /\ count_report' = << Len(f1), Len(f2) >>
                   /\ status' = "exit1" /\ pc' = "exited"
                   /\ UNCHANGED stages
              ELSE /\ reported' = reported \cup {Msg("Found images in each folder", <<>>)}
                   /\ pc' = "step1"
                   /\ stages' = Append(stages, "Step 1")
                   /\ UNCHANGED << status, count_report >>
  /\ i' = 1
  /\ UNCHANGED << env_vars, a16_vars, dir_a, dir_b, cwd, renames, cmds,
                  tool_calls, dir_b0 >>

\* lines 83-86: one iteration of the matching loop
SlrMatchStep ==
  /\ prog = "slr" /\ pc = "step1" /\ i <= Len(folder1_images)
  /\ LET img1 == folder1_images[i]
         img2 == folder2_images[i]
         r    == OsRename(dir_b, img2, img1, platform)
     IN  IF img2 = img1
         THEN UNCHANGED << dir_b, renames, reported, pc, status >>
         ELSE IF r.exc = "none"
         THEN /\ dir_b' = r.fs
              /\ renames' = Append(renames, << img2, img1 >>)
              /\ UNCHANGED << reported, pc, status >>
         ELSE /\ Crashed(r.exc)
              /\ UNCHANGED << dir_b, renames >>
  /\ i' = i + 1
  /\ UNCHANGED << env_vars, count_report, a16_vars, dir_a, cwd, folder1_images, folder2_images,
                  cmds, tool_calls, stages, dir_b0 >>

\* lines 88-95: reload folder2's image list (not sorted again)
SlrReload ==
  /\ prog = "slr" /\ pc = "step1" /\ i > Len(folder1_images)
  /\ \E l2 \in Listings(DOMAIN dir_b) : folder2_images' = ImagesOf(l2)
  /\ pc' = "rot1"
  /\ i' = 1
  /\ stages' = Append(stages, "Step 2")
  /\ UNCHANGED << env_vars, count_report, a16_vars, dir_a, dir_b, cwd, folder1_images, status,
                  reported, renames, cmds, tool_calls, dir_b0 >>

\* lines 26-40: what run_command gives back: the output on exit 0, None on a
\* nonzero exit (CalledProcessError is caught); a missing executable raises
\* FileNotFoundError, which run_command does not catch
run_command(outcome, stdout) ==
  CASE outcome = "ok"   -> [exc |-> "none", none |-> FALSE, out |-> stdout]
    [] outcome = "fail" -> [exc |-> "none", none |-> TRUE, out |-> <<>>]
    [] OTHER            -> [exc |-> "FileNotFoundError", none |-> FALSE, out |-> <<>>]

\* the rename of rotated.jpg (in the current directory) over the image
RenameRotated(d, c, img, plat) ==
  IF RotatedJpg \notin DOMAIN c THEN [fs |-> d, cwd |-> c, exc |-> "FileNotFoundError"]
  ELSE IF plat = "nt" /\ img \in DOMAIN d
       THEN [fs |-> d, cwd |-> c, exc |-> "FileExistsError"]
  ELSE [fs |-> Put(d, img, c[RotatedJpg]), cwd |-> Remove(c, RotatedJpg), exc |-> "none"]

\* lines 98-108 (and 110-120): the body of the rotation loop for one image of
\* directory d, given the outcomes of the three commands and the orientation
\* output.  Gives the directory, the current directory, the exception raised
\* and the commands invoked.
RotateBody(d, c, img, o1, out, o2, o3, plat) ==
  LET r1   == run_command(o1, out)
      c1   == [Cmd("exiftool", << "-Orientation#" >>, img) EXCEPT !.out = r1.out]
      stop(exc, cs) == [fs |-> d, cwd |-> c, exc |-> exc, cmds |-> cs]
  IN  IF r1.exc # "none" THEN stop(r1.exc, << c1 >>)
      ELSE IF r1.none THEN stop("TypeError", << c1 >>)
      ELSE IF ~IsDigitStr(r1.out) THEN stop("ValueError", << c1 >>)
      ELSE LET transform == orientation_to_jpegtran_arg(IntOf(r1.out))
               c2 == Cmd("jpegtran", transform, img)
               c3 == Cmd("exiftool", << "-Orientation=1" >>, RotatedJpg)
               r2 == run_command(o2, <<>>)
               r3 == run_command(o3, <<>>)
               c_after == IF o2 = "ok" /\ img \in DOMAIN d
                          THEN Put(c, RotatedJpg, [d[img] EXCEPT !.state = << "rotated" >>])
                          ELSE c
               mv == RenameRotated(d, c_after, img, plat)
           IN  IF transform = NoTransform THEN stop("none", << c1 >>)
               ELSE IF r2.exc # "none" THEN stop(r2.exc, << c1, c2 >>)
               ELSE IF r3.exc # "none"
                    THEN [fs |-> d, cwd |-> c_after, exc |-> r3.exc, cmds |-> << c1, c2, c3 >>]
               ELSE [fs |-> mv.fs, cwd |-> mv.cwd, exc |-> mv.exc, cmds |-> << c1, c2, c3 >>]

\* the outcome choices that differ in what the loop body does: a command that is
\* not reached has no outcome to choose
Reached(o1, out, o2, o3) ==
  LET rotates == o1 = "ok" /\ IsDigitStr(out)
                   /\ orientation_to_jpegtran_arg(IntOf(out)) # NoTransform
  IN  /\ o1 # "ok" => out = <<>>
      /\ ~rotates => o2 = "fail"
      /\ (~rotates \/ o2 = "notfound") => o3 = "fail"

\* lines 97-108: one iteration of the rotation loop over folder1
SlrRotate1Step ==
  /\ prog = "slr" /\ pc = "rot1" /\ i <= Len(folder1_images)
  /\ \E o1 \in Outcomes, o2 \in Outcomes, o3 \in Outcomes, out \in OrientationOutputs :
       LET r == RotateBody(dir_a, cwd, folder1_images[i], o1, out, o2, o3, platform)
       IN  /\ Reached(o1, out, o2, o3)
           /\ dir_a' = r.fs
           /\ cwd' = r.cwd
           /\ cmds' = r.cmds
           /\ tool_calls' = tool_calls + Len(r.cmds)
           /\ IF r.exc = "none" THEN UNCHANGED << pc, status, reported >>
              ELSE Crashed(r.exc)
  /\ i' = i + 1
  /\ UNCHANGED << env_vars, count_report, a16_vars, dir_b, folder1_images, folder2_images,
                  renames, stages, dir_b0 >>

\* lines 109-120: one iteration of the rotation loop over folder2
SlrRotate2Step ==
  /\ prog = "slr" /\ pc = "rot2" /\ i <= Len(folder2_images)
  /\ \E o1 \in Outcomes, o2 \in Outcomes, o3 \in Outcomes, out \in OrientationOutputs :
       LET r == RotateBody(dir_b, cwd, folder2_images[i], o1, out, o2, o3, platform)
       IN  /\ Reached(o1, out, o2, o3)
           /\ dir_b' = r.fs
           /\ cwd' = r.cwd
           /\ cmds' = r.cmds
           /\ tool_calls' = tool_calls + Len(r.cmds)
           /\ IF r.exc = "none" THEN UNCHANGED << pc, status, reported >>
              ELSE Crashed(r.exc)
  /\ i' = i + 1
  /\ UNCHANGED << env_vars, count_report, a16_vars, dir_a, folder1_images, folder2_images,
                  renames, stages, dir_b0 >>

\* name + '-sbs.tiff' for name, _ = os.path.splitext(img_name)
SbsOutput(img_name) == Stem(img_name) \o DashSbs \o DotTiff

\* the product of a successful alignment of the pair named img
Aligned(img) == [side |-> "sbs", orig |-> img, state |-> << "aligned" >>]

\* lines 127-140: one iteration of the alignment loop.  The alignment tool can
\* only succeed when both of its input files exist.
SlrAlignStep ==
  /\ prog = "slr" /\ pc = "align" /\ i <= Len(folder1_images)
  /\ LET img == folder1_images[i]
     IN  \E o \in Outcomes :
           /\ o = "ok" => (img \in DOMAIN dir_a /\ img \in DOMAIN dir_b)
           /\ cmds' = << Cmd("StereoAutoAlign", img, SbsOutput(img)) >>
           /\ dir_a' = IF o = "ok" THEN Put(dir_a, SbsOutput(img), Aligned(img)) ELSE dir_a
           /\ IF run_command(o, <<>>).exc = "none"
              THEN UNCHANGED << pc, status, reported >>
              ELSE Crashed(run_command(o, <<>>).exc)
  /\ tool_calls' = tool_calls + 1
  /\ i' = i + 1
  /\ UNCHANGED << env_vars, count_report, a16_vars, dir_b, cwd, folder1_images, folder2_images,
                  renames, stages, dir_b0 >>

\* lines 147-159: one iteration of the metadata-copy loop.  exiftool can only
\* succeed when the file it writes to exists.
SlrExifStep ==
  /\ prog = "slr" /\ pc = "exif" /\ i <= Len(folder1_images)
  /\ LET img == folder1_images[i]
         out == SbsOutput(img)
     IN  \E o \in Outcomes :
           /\ o = "ok" => (img \in DOMAIN dir_a /\ out \in DOMAIN dir_a)
           /\ cmds' = << Cmd("exiftool", << "-TagsFromFile" >> \o img, out) >>
           /\ dir_a' = IF o = "ok"
                       THEN [dir_a EXCEPT ![out] = [@ EXCEPT !.state = << "tagged" >>]]
                       ELSE dir_a
           /\ IF run_command(o, <<>>).exc = "none"
              THEN UNCHANGED << pc, status, reported >>
              ELSE Crashed(run_command(o, <<>>).exc)
  /\ tool_calls' = tool_calls + 1
  /\ i' = i + 1
  /\ UNCHANGED << env_vars, count_report, a16_vars, dir_b, cwd, folder1_images, folder2_images,
                  renames, stages, dir_b0 >>

\* lines 166-182: one iteration of the encoder loop
SlrSpatialStep ==
  /\ prog = "slr" /\ pc = "spatial" /\ i <= Len(folder1_images)
  /\ LET out == SbsOutput(folder1_images[i])
     IN  \E o \in Outcomes :
           /\ o = "ok" => out \in DOMAIN dir_a
           /\ cmds' = << Cmd("spatialPhotoTool", << "-s", "-f", "-b" >>, out) >>
           /\ IF run_command(o, <<>>).exc = "none"
              THEN UNCHANGED << pc, status, reported >>
              ELSE Crashed(run_command(o, <<>>).exc)
  /\ tool_calls' = tool_calls + 1
  /\ i' = i + 1
  /\ UNCHANGED << env_vars, count_report, a16_vars, dir_a, dir_b, cwd, folder1_images,
                  folder2_images, renames, stages, dir_b0 >>

\* the stage that follows a finished loop of process_images
SlrAfter(stage) ==
  CASE stage = "rot1"  -> "rot2"
    [] stage = "rot2"  -> "align"
    [] stage = "align" -> "exif"
    [] stage = "exif"  -> IF spatial_params THEN "spatial" ELSE "done"
    [] OTHER           -> "done"

SlrStageName(stage) ==
  CASE stage = "align"   -> << "Step 3" >>
    [] stage = "exif"    -> << "Step 4" >>
    [] stage = "spatial" -> << "Step 5" >>
    [] OTHER             -> << >>

\* lines 109, 125, 146, 163-164, 184: a loop is exhausted, the next stage begins
SlrNextStage ==
  /\ prog = "slr" /\ pc \in {"rot1", "rot2", "align", "exif", "spatial"}
  /\ i > Len(IF pc = "rot2" THEN folder2_images ELSE folder1_images)
  /\ pc' = SlrAfter(pc)
  /\ stages' = stages \o SlrStageName(SlrAfter(pc))
  /\ i' = 1
  /\ IF SlrAfter(pc) = "done"
     THEN /\ status' = "done"
          /\ reported' = reported \cup {Msg("All processing steps completed successfully!", <<>>)}
     ELSE UNCHANGED << status, reported >>
  /\ UNCHANGED << env_vars, count_report, a16_vars, dir_a, dir_b, cwd, folder1_images,
                  folder2_images, renames, cmds, tool_calls, dir_b0 >>

(***************************************************************************)
(* a16spatial.py: helpers                                                  *)
(***************************************************************************)
\* variables of process_images, which the a16spatial driver never touches
slr_vars == << folder1_images, folder2_images, i, count_report >>

\* str.replace(old, new): every occurrence, left to right
RECURSIVE Replace(_, _, _)
Replace(s, old, new) ==
  IF s = <<>> THEN <<>>
  ELSE IF HasAt(s, 1, old)
       THEN new \o Replace(SubSeq(s, Len(old) + 1, Len(s)), old, new)
  ELSE << s[1] >> \o Replace(Tail(s), old, new)

\* the first element of sorted(names): plain string order
MinName(names) == CHOOSE x \in names : \A y \in names \ {x} : StrLess(x, y)

\* f"{file_path.stem}-corrected{file_path.suffix}"
CorrectedName(filename) == Stem(filename) \o DashCorrected \o Suffix(filename)

\* name.replace('-corrected', '-sbs') + '.tiff' for name, _ = splitext(filename)
AlignOutput(filename) == Replace(Stem(filename), DashCorrected, DashSbs) \o DotTiff

\* regex.search(filename) for r'IMG(\d{8})-(\d{6})': the leftmost place it matches
DatePlaces(s) ==
  {k \in 1..Len(s) :
     /\ HasAt(s, k, << "I", "M", "G" >>)
     /\ k + 17 <= Len(s)
     /\ IsDigitStr(SubSeq(s, k + 3, k + 10))
     /\ s[k + 11] = "-"
     /\ IsDigitStr(SubSeq(s, k + 12, k + 17))}

DateSearch(s) ==
  LET places == DatePlaces(s)
      groups[k \in places] ==
        [matched   |-> TRUE,
         date_part |-> SubSeq(s, k + 3, k + 10),
         time_part |-> SubSeq(s, k + 12, k + 17)]
  IN  IF places = {} THEN [matched |-> FALSE, date_part |-> <<>>, time_part |-> <<>>]
      ELSE groups[CHOOSE x \in places : \A y \in places : x <= y]

\* f"{year}:{month}:{day} {hour}:{minute}:{second}"
ExifDatetime(date_part, time_part) ==
  SubSeq(date_part, 1, 4) \o << ":" >> \o SubSeq(date_part, 5, 6) \o << ":" >>
    \o SubSeq(date_part, 7, 8) \o << " " >> \o SubSeq(time_part, 1, 2) \o << ":" >>
    \o SubSeq(time_part, 3, 4) \o << ":" >> \o SubSeq(time_part, 5, 6)

IsLeap(y) == (y % 4 = 0 /\ y % 100 # 0) \/ y % 400 = 0

DaysIn(y, m) ==
  IF m = 2 THEN (IF IsLeap(y) THEN 29 ELSE 28)
  ELSE IF m \in {4, 6, 9, 11} THEN 30 ELSE 31

\* whether datetime.strptime(exif_datetime, "%Y:%m:%d %H:%M:%S") accepts the
\* string (it raises ValueError otherwise)
StrptimeAccepts(e) ==
  \E y  \in {IntOf(SubSeq(e, 1, 4))},
     mo \in {IntOf(SubSeq(e, 6, 7))},
     d  \in {IntOf(SubSeq(e, 9, 10))},
     h  \in {IntOf(SubSeq(e, 12, 13))},
     mi \in {IntOf(SubSeq(e, 15, 16))},
     sc \in {IntOf(SubSeq(e, 18, 19))} :
      /\ y >= 1
      /\ mo \in 1..12
      /\ d >= 1 /\ d <= DaysIn(y, mo)
      /\ h <= 23 /\ mi <= 59 /\ sc <= 59

\* a variant of main that runs the EXIF copy before the alignment
A16After_ExifFirst(stage) ==
  CASE stage = "lens_left"  -> "lens_right"
    [] stage = "lens_right" -> "match"
    [] stage = "match"      -> IF prog = "pair" THEN (IF run < 2 THEN "match" ELSE "done")
                               ELSE "exif"
    [] stage = "exif"       -> "align"
    [] stage = "align"      -> "datetime"
    [] stage = "datetime"   -> "stereo"
    [] stage = "stereo"     -> "heic"
    [] OTHER                -> "done"

\* the stage of main that follows the named one
A16After(stage) ==
  CASE stage = "lens_left"  -> "lens_right"
    [] stage = "lens_right" -> "match"
    [] stage = "match"      -> IF prog = "pair" THEN (IF run < 2 THEN "match" ELSE "done")
                               ELSE "align"
    [] stage = "align"      -> "exif"
    [] stage = "exif"       -> "datetime"
    [] stage = "datetime"   -> IF prog = "stamp" THEN "done" ELSE "stereo"
    [] stage = "stereo"     -> "heic"
    [] OTHER                -> "done"

\* a batch function returns: main goes on with the next stage
Return(stage) ==
  /\ pc' = A16After(stage)
  /\ status' = IF A16After(stage) = "done" THEN "done" ELSE status

\* whether a shutil.move may raise in this step
MoveRaises == IF move_faults THEN BOOLEAN ELSE {FALSE}

(***************************************************************************)
(* a16spatial.py: main and apply_lens_correction                           *)
(***************************************************************************)
\* lines 599-604: a missing directory ends main before any stage
MainCheck ==
  /\ prog = "a16" /\ pc = "start"
  /\ IF ~exists_a
     THEN /\ reported' = reported \cup {Msg("Error: Directory not found", << "left" >>)}
          /\ status' = "returned" /\ pc' = "exited"
     ELSE IF ~exists_b
     THEN /\ reported' = reported \cup {Msg("Error: Directory not found", << "right" >>)}
          /\ status' = "returned" /\ pc' = "exited"
     ELSE /\ pc' = "lens_left"
          /\ UNCHANGED << reported, status >>
  /\ UNCHANGED << env_vars, slr_vars, a16_vars, dir_a, dir_b, cwd, renames, cmds,
                  tool_calls, stages, dir_b0 >>

\* lines 18-33: apply_lens_correction lists the directory
LensBegin ==
  /\ prog = "a16" /\ pc \in {"lens_left", "lens_right"}
  /\ stages' = Append(stages, pc)
  /\ LET d == IF pc = "lens_left" THEN dir_a ELSE dir_b
     IN  IF ~(IF pc = "lens_left" THEN exists_a ELSE exists_b)
         THEN /\ reported' = reported \cup {Msg("Error: Directory not found", << pc >>)}
              /\ Return(pc)
              /\ UNCHANGED todo
         ELSE IF DOMAIN d = {}
         THEN /\ reported' = reported \cup {Msg("No files found", << pc >>)}
              /\ Return(pc)
              /\ UNCHANGED todo
         ELSE /\ todo' = DOMAIN d
              /\ pc' = IF pc = "lens_left" THEN "lens_left_loop" ELSE "lens_right_loop"
              /\ UNCHANGED << reported, status >>
  /\ UNCHANGED << env_vars, slr_vars, files_a, order_a, run, success_count,
                  skipped_count, error_count, dir_a, dir_b, cwd, renames, cmds,
                  tool_calls, dir_b0 >>

\* the product of a successful lens correction of the file with content c
Corrected(c) == [c EXCEPT !.state = << "corrected" >>]

\* lines 36-64: one iteration of the lens-correction loop; every exception of the
\* FFmpeg call is caught and printed
LensStep ==
  /\ prog = "a16" /\ pc \in {"lens_left_loop", "lens_right_loop"} /\ todo # {}
  /\ \E filename \in todo, o \in Outcomes :
       LET left == pc = "lens_left_loop"
           d    == IF left THEN dir_a ELSE dir_b
           d2   == IF o = "ok" THEN Put(d, CorrectedName(filename), Corrected(d[filename]))
                   ELSE d
       IN  /\ todo' = todo \ {filename}
           /\ cmds' = << Cmd("ffmpeg", << "lenscorrection" >>, CorrectedName(filename)) >>
           /\ dir_a' = IF left THEN d2 ELSE dir_a
           /\ dir_b' = IF left THEN dir_b ELSE d2
           /\ reported' = reported \cup
                {Msg(CASE o = "ok" -> "Successfully processed"
                       [] o = "fail" -> "Error processing"
                       [] OTHER -> "Unexpected error processing", filename)}
  /\ tool_calls' = tool_calls + 1
  /\ UNCHANGED << env_vars, slr_vars, files_a, order_a, run, success_count,
                  skipped_count, error_count, pc, status, cwd, renames, stages, dir_b0 >>

\* line 36: the loop is exhausted, apply_lens_correction returns
LensEnd ==
  /\ prog = "a16" /\ pc \in {"lens_left_loop", "lens_right_loop"} /\ todo = {}
  /\ Return(IF pc = "lens_left_loop" THEN "lens_left" ELSE "lens_right")
  /\ UNCHANGED << env_vars, slr_vars, a16_vars, dir_a, dir_b, cwd, reported,
                  renames, cmds, tool_calls, stages, dir_b0 >>

(***************************************************************************)
(* a16spatial.py: match_and_rename_files                                   *)
(***************************************************************************)
\* lines 281-301: the directories are checked and dir_a's listing is taken
MatchBegin ==
  /\ prog \in {"a16", "pair"} /\ pc = "match"
  /\ stages' = Append(stages, "match")
  /\ run' = run + 1
  /\ dir_b0' = dir_b
  /\ IF ~exists_a \/ ~exists_b
     THEN /\ reported' = reported \cup {Msg("Error: Directory not found", << "match" >>)}
          /\ pc' = A16After("match")'
          /\ status' = IF A16After("match")' = "done" THEN "done" ELSE status
          /\ UNCHANGED << todo, files_a, order_a >>
     ELSE /\ todo' = DOMAIN dir_a
          /\ files_a' = EmptyDir
          /\ order_a' = IF run = 0 THEN <<>> ELSE order_a
          /\ pc' = "match_a"
          /\ UNCHANGED << reported, status >>
  /\ UNCHANGED << env_vars, slr_vars, success_count, skipped_count, error_count,
                  dir_a, dir_b, cwd, renames, cmds, tool_calls >>

\* the entry files_a[number] = {...} of lines 307-311
FileEntry(filename, m) ==
  [filename |-> filename, prefix |-> m.prefix, extension |-> m.extension]

\* lines 302-311: one file of dir_a's listing.  The listing of the unmodified
\* dir_a enumerates in the same order on every call: a later call replays
\* order_a.
MatchScanA ==
  /\ prog \in {"a16", "pair"} /\ pc = "match_a" /\ todo # {}
  /\ \E filename \in todo :
       \E k \in {Cardinality(DOMAIN dir_a) - Cardinality(todo) + 1},
          m \in {PatternMatch(filename)} :
           /\ k <= Len(order_a) => filename = order_a[k]
           /\ order_a' = IF k <= Len(order_a) THEN order_a ELSE Append(order_a, filename)
           /\ todo' = todo \ {filename}
           /\ files_a' = IF m.matched THEN Put(files_a, m.number, FileEntry(filename, m))
                         ELSE files_a
  /\ UNCHANGED << env_vars, slr_vars, run, success_count, skipped_count, error_count,
                  pc, status, dir_a, dir_b, cwd, reported, renames, cmds, tool_calls,
                  stages, dir_b0 >>

\* lines 313-325: nothing to match against returns; otherwise dir_b is listed
MatchAfterA ==
  /\ prog \in {"a16", "pair"} /\ pc = "match_a" /\ todo = {}
  /\ IF DOMAIN files_a = {}
     THEN /\ reported' = reported \cup {Msg("No matching files found", << "match" >>)}
          /\ Return("match")
          /\ UNCHANGED << todo, success_count, skipped_count, error_count >>
     ELSE /\ reported' = reported \cup {Msg("Found matching files", << "match" >>)}
          /\ todo' = DOMAIN dir_b
          /\ success_count' = 0
          /\ skipped_count' = 0
          /\ error_count' = 0
          /\ pc' = "match_b"
          /\ UNCHANGED status
  /\ UNCHANGED << env_vars, slr_vars, files_a, order_a, run, dir_a, dir_b, cwd,
                  renames, cmds, tool_calls, stages, dir_b0 >>

\* a variant that builds the new name with side A's extension
MatchDecision_SideAExtension(filename, m, d, fa) ==
  LET none(what) == [what |-> what, target |-> <<>>]
  IN  IF filename \notin DOMAIN d THEN none("gone")
      ELSE IF ~m.matched THEN none("nopattern")
      ELSE IF m.number \notin DOMAIN fa THEN none("nomatch")
      ELSE IF m.prefix = fa[m.number].prefix THEN none("skip")
      ELSE [what   |-> "rename",
            target |-> NewFilename(fa[m.number].prefix, m.number, fa[m.number].extension)]

\* a variant without the test for an already matching prefix
MatchDecision_NeverSkips(filename, m, d, fa) ==
  LET none(what) == [what |-> what, target |-> <<>>]
  IN  IF filename \notin DOMAIN d THEN none("gone")
      ELSE IF ~m.matched THEN none("nopattern")
      ELSE IF m.number \notin DOMAIN fa THEN none("nomatch")
      ELSE [what   |-> "rename",
            target |-> NewFilename(fa[m.number].prefix, m.number, m.extension)]

\* lines 326-358: what the loop body does with one entry of dir_b's listing, m
\* being pattern.match(filename):
\* "skip" (prefix already matches), "rename" to target, "nomatch" (number not in
\* files_a), "nopattern", or "gone" (no longer a file)
MatchDecision(filename, m, d, fa) ==
  LET none(what) == [what |-> what, target |-> <<>>]
  IN  IF filename \notin DOMAIN d THEN none("gone")
      ELSE IF ~m.matched THEN none("nopattern")
      ELSE IF m.number \notin DOMAIN fa THEN none("nomatch")
      ELSE IF m.prefix = fa[m.number].prefix THEN none("skip")
      ELSE [what   |-> "rename",
            target |-> NewFilename(fa[m.number].prefix, m.number, m.extension)]

\* lines 325-358: one iteration of the loop over dir_b's listing
MatchScanB ==
  /\ prog \in {"a16", "pair"} /\ pc = "match_b" /\ todo # {}
  /\ \E filename \in todo, raises \in MoveRaises :
       \E m \in {PatternMatch(filename)} :
       \E dec \in {MatchDecision(filename, m, dir_b, files_a)} :
       LET mv  == ShutilMove(dir_b, filename, dec.target)
           ok  == ~raises /\ mv.exc = "none"
       IN  /\ todo' = todo \ {filename}
           /\ dec.what # "rename" => ~raises
           /\ dir_b' = IF dec.what = "rename" /\ ok THEN mv.fs ELSE dir_b
           /\ renames' = IF dec.what = "rename" /\ ok
                         THEN Append(renames, << filename, dec.target >>)
                         ELSE renames
           /\ success_count' = success_count + (IF dec.what = "rename" /\ ok THEN 1 ELSE 0)
           /\ error_count' = error_count + (IF dec.what = "rename" /\ ~ok THEN 1 ELSE 0)
           /\ skipped_count' = skipped_count + (IF dec.what = "skip" THEN 1 ELSE 0)
           /\ reported' =
                CASE dec.what = "skip" ->
                       reported \cup {Msg("Skipping - prefix already matches", filename)}
                  [] dec.what = "rename" /\ ok ->
                       reported \cup {Msg("Renamed", filename)}
                  [] dec.what = "rename" /\ ~ok ->
                       reported \cup {Msg("Error renaming", filename)}
                  [] dec.what = "nomatch" ->
                       reported \cup {Msg("No match found in directory for number", filename)}
                  [] dec.what = "nopattern" ->
                       reported \cup {Msg("Skipping - doesn't match expected pattern", filename)}
                  [] OTHER -> reported
  /\ UNCHANGED << env_vars, slr_vars, files_a, order_a, run, pc, status, dir_a, cwd,
                  cmds, tool_calls, stages, dir_b0 >>

\* lines 360-364: the summary; match_and_rename_files returns
MatchSummary ==
  /\ prog \in {"a16", "pair"} /\ pc = "match_b" /\ todo = {}
  /\ reported' = reported \cup {Msg("Summary", << "match" >>)}
  /\ Return("match")
  /\ UNCHANGED << env_vars, slr_vars, a16_vars, dir_a, dir_b, cwd, renames, cmds,
                  tool_calls, stages, dir_b0 >>

(***************************************************************************)
(* a16spatial.py: align_stereo_files                                       *)
(***************************************************************************)
\* lines 389-398: the names in both directories whose stem ends in -corrected
MatchingFiles(da, db) ==
  {f \in (DOMAIN da) \cap (DOMAIN db) : EndsWith(Stem(f), DashCorrected)}

\* lines 375-408
AlignBegin ==
  /\ prog = "a16" /\ pc = "align"
  /\ stages' = Append(stages, "align")
  /\ \E files \in {MatchingFiles(dir_a, dir_b)} :
       IF ~exists_a \/ ~exists_b
       THEN /\ reported' = reported \cup {Msg("Error: Directory not found", << "align" >>)}
            /\ Return("align")
            /\ UNCHANGED << todo, success_count, skipped_count, error_count >>
       ELSE IF files = {}
       THEN /\ reported' = reported \cup {Msg("No matching filenames found", << "align" >>)}
            /\ Return("align")
            /\ UNCHANGED << todo, success_count, skipped_count, error_count >>
       ELSE /\ todo' = files
            /\ success_count' = 0
            /\ error_count' = 0
            /\ pc' = "align_loop"
            /\ UNCHANGED << reported, status, skipped_count >>
  /\ UNCHANGED << env_vars, slr_vars, files_a, order_a, run, dir_a, dir_b, cwd,
                  renames, cmds, tool_calls, dir_b0 >>

\* lines 410-445: one iteration over sorted(matching_files)
AlignStep ==
  /\ prog = "a16" /\ pc = "align_loop" /\ todo # {}
  /\ \E filename \in {MinName(todo)}, o \in Outcomes :
       \E out \in {AlignOutput(filename)} :
           /\ o = "ok" => (filename \in DOMAIN dir_a /\ filename \in DOMAIN dir_b)
           /\ todo' = todo \ {filename}
           /\ cmds' = << Cmd("StereoAutoAlign", filename, out) >>
           /\ dir_a' = IF o = "ok" THEN Put(dir_a, out, Aligned(filename)) ELSE dir_a
           /\ success_count' = success_count + (IF o = "ok" THEN 1 ELSE 0)
           /\ error_count' = error_count + (IF o = "ok" THEN 0 ELSE 1)
  /\ tool_calls' = tool_calls + 1
  /\ UNCHANGED << env_vars, slr_vars, files_a, order_a, run, skipped_count, pc,
                  status, dir_b, cwd, reported, renames, stages, dir_b0 >>

\* lines 447-450
AlignEnd ==
  /\ prog = "a16" /\ pc = "align_loop" /\ todo = {}
  /\ reported' = reported \cup {Msg("Summary", << "align" >>)}
  /\ Return("align")
  /\ UNCHANGED << env_vars, slr_vars, a16_vars, dir_a, dir_b, cwd, renames, cmds,
                  tool_calls, stages, dir_b0 >>

(***************************************************************************)
(* a16spatial.py: copy_exif_tags(left)                                     *)
(***************************************************************************)
\* lines 77-103 (dest_dir is None: the source directory)
ExifBegin ==
  /\ prog = "a16" /\ pc = "exif"
  /\ stages' = Append(stages, "exif")
  /\ IF ~exists_a
     THEN /\ reported' = reported \cup {Msg("Error: Directory not found", << "exif" >>)}
          /\ Return("exif")
          /\ UNCHANGED << todo, success_count, skipped_count, error_count >>
     ELSE IF DOMAIN dir_a = {}
     THEN /\ reported' = reported \cup {Msg("No files found", << "exif" >>)}
          /\ Return("exif")
          /\ UNCHANGED << todo, success_count, skipped_count, error_count >>
     ELSE /\ todo' = DOMAIN dir_a
          /\ success_count' = 0
          /\ skipped_count' = 0
          /\ error_count' = 0
          /\ pc' = "exif_loop"
          /\ UNCHANGED << reported, status >>
  /\ UNCHANGED << env_vars, slr_vars, files_a, order_a, run, dir_a, dir_b, cwd,
                  renames, cmds, tool_calls, dir_b0 >>

\* lines 107-123: "derived" (already a -corrected or -sbs file), "missing" (no
\* -sbs.tiff counterpart) or "copy"
ExifDecision(source_file, d) ==
  LET base_name == Stem(source_file)
  IN  IF EndsWith(base_name, DashCorrected) \/ EndsWith(base_name, DashSbs) THEN "derived"
      ELSE IF (base_name \o DashSbs \o DotTiff) \notin DOMAIN d THEN "missing"
      ELSE "copy"

\* lines 105-155: one iteration of the tag-copy loop
ExifStep ==
  /\ prog = "a16" /\ pc = "exif_loop" /\ todo # {}
  /\ \E source_file \in todo :
       \E dec \in {ExifDecision(source_file, dir_a)},
          out \in {Stem(source_file) \o DashSbs \o DotTiff}, o \in Outcomes :
           /\ todo' = todo \ {source_file}
           /\ dec # "copy" => o = "fail"
           /\ cmds' = IF dec = "copy"
                      THEN << Cmd("exiftool", << "-TagsFromFile" >> \o source_file, out) >>
                      ELSE << >>
           /\ tool_calls' = tool_calls + (IF dec = "copy" THEN 1 ELSE 0)
           /\ dir_a' = IF dec = "copy" /\ o = "ok"
                       THEN [dir_a EXCEPT ![out] = [@ EXCEPT !.state = << "tagged" >>]]
                       ELSE dir_a
           /\ skipped_count' = skipped_count + (IF dec = "copy" THEN 0 ELSE 1)
           /\ success_count' = success_count + (IF dec = "copy" /\ o = "ok" THEN 1 ELSE 0)
           /\ error_count' = error_count + (IF dec = "copy" /\ o # "ok" THEN 1 ELSE 0)
  /\ UNCHANGED << env_vars, slr_vars, files_a, order_a, run, pc, status, dir_b, cwd,
                  reported, renames, stages, dir_b0 >>

\* lines 157-161
ExifEnd ==
  /\ prog = "a16" /\ pc = "exif_loop" /\ todo = {}
  /\ reported' = reported \cup {Msg("Summary", << "exif" >>)}
  /\ Return("exif")
  /\ UNCHANGED << env_vars, slr_vars, a16_vars, dir_a, dir_b, cwd, renames, cmds,
                  tool_calls, stages, dir_b0 >>

(***************************************************************************)
(* a16spatial.py: set_datetime_from_filename(left)                         *)
(***************************************************************************)
\* lines 187-189: the files whose lower-cased name ends in -sbs.tiff
SbsTiffs(d) == {f \in DOMAIN d : EndsWith(Lower(f), DashSbs \o DotTiff)}

\* lines 175-198
DatetimeBegin ==
  /\ prog \in {"a16", "stamp"} /\ pc = "datetime"
  /\ stages' = Append(stages, "datetime")
  /\ \E files \in {SbsTiffs(dir_a)} :
       IF ~exists_a
       THEN /\ reported' = reported \cup {Msg("Error: Directory not found", << "datetime" >>)}
            /\ Return("datetime")
            /\ UNCHANGED << todo, success_count, skipped_count, error_count >>
       ELSE IF files = {}
       THEN /\ reported' = reported \cup {Msg("No files found", << "datetime" >>)}
            /\ Return("datetime")
            /\ UNCHANGED << todo, success_count, skipped_count, error_count >>
       ELSE /\ todo' = files
            /\ success_count' = 0
            /\ skipped_count' = 0
            /\ error_count' = 0
            /\ pc' = "datetime_loop"
            /\ UNCHANGED << reported, status >>
  /\ UNCHANGED << env_vars, slr_vars, files_a, order_a, run, dir_a, dir_b, cwd,
                  renames, cmds, tool_calls, dir_b0 >>

\* a variant that takes a date strptime rejects for a name without the pattern
DatetimeDecision_InvalidSkips(m) ==
  IF ~m.matched THEN "nopattern"
  ELSE IF ~StrptimeAccepts(ExifDatetime(m.date_part, m.time_part)) THEN "nopattern"
  ELSE "set"

\* lines 202-226: "nopattern" (skip), "invalid" (ValueError) or "set", m being
\* regex.search(filename)
DatetimeDecision(m) ==
  IF ~m.matched THEN "nopattern"
  ELSE IF ~StrptimeAccepts(ExifDatetime(m.date_part, m.time_part)) THEN "invalid"
  ELSE "set"

\* lines 200-262: one iteration of the date/time loop
DatetimeStep ==
  /\ prog \in {"a16", "stamp"} /\ pc = "datetime_loop" /\ todo # {}
  /\ \E filename \in todo :
       \E m \in {DateSearch(filename)} :
       \E dec \in {DatetimeDecision(m)}, o \in Outcomes :
           /\ todo' = todo \ {filename}
           /\ dec # "set" => o = "fail"
           /\ cmds' = IF dec = "set"
                      THEN << Cmd("exiftool", ExifDatetime(m.date_part, m.time_part),
                                  filename) >>
                      ELSE << >>
           /\ tool_calls' = tool_calls + (IF dec = "set" THEN 1 ELSE 0)
           /\ dir_a' = IF dec = "set" /\ o = "ok"
                       THEN [dir_a EXCEPT ![filename] = [@ EXCEPT !.state = << "dated" >>]]
                       ELSE dir_a
           /\ skipped_count' = skipped_count + (IF dec = "nopattern" THEN 1 ELSE 0)
           /\ success_count' = success_count + (IF dec = "set" /\ o = "ok" THEN 1 ELSE 0)
           /\ error_count' = error_count +
                (IF dec = "invalid" \/ (dec = "set" /\ o # "ok") THEN 1 ELSE 0)
  /\ UNCHANGED << env_vars, slr_vars, files_a, order_a, run, pc, status, dir_b, cwd,
                  reported, renames, stages, dir_b0 >>

\* lines 264-268
DatetimeEnd ==
  /\ prog \in {"a16", "stamp"} /\ pc = "datetime_loop" /\ todo = {}
  /\ reported' = reported \cup {Msg("Summary", << "datetime" >>)}
  /\ Return("datetime")
  /\ UNCHANGED << env_vars, slr_vars, a16_vars, dir_a, dir_b, cwd, renames, cmds,
                  tool_calls, stages, dir_b0 >>

(***************************************************************************)
(* a16spatial.py: process_stereo_files(left) and move_heic_files(left)     *)
(***************************************************************************)
\* lines 470-478: the files whose stem ends in -sbs
StereoFiles(d) == {f \in DOMAIN d : EndsWith(Stem(f), DashSbs)}

\* lines 461-489
StereoBegin ==
  /\ prog = "a16" /\ pc = "stereo"
  /\ stages' = Append(stages, "stereo")
  /\ \E files \in {StereoFiles(dir_a)} :
       IF ~exists_a
       THEN /\ reported' = reported \cup {Msg("Error: Directory not found", << "stereo" >>)}
            /\ Return("stereo")
            /\ UNCHANGED << todo, success_count, error_count >>
       ELSE IF files = {}
       THEN /\ reported' = reported \cup {Msg("No stereo filenames found", << "stereo" >>)}
            /\ Return("stereo")
            /\ UNCHANGED << todo, success_count, error_count >>
       ELSE /\ todo' = files
            /\ success_count' = 0
            /\ error_count' = 0
            /\ pc' = "stereo_loop"
            /\ UNCHANGED << reported, status >>
  /\ UNCHANGED << env_vars, slr_vars, files_a, order_a, run, skipped_count, dir_a,
                  dir_b, cwd, renames, cmds, tool_calls, dir_b0 >>

\* the container the encoder leaves beside its input when it succeeds
HeicName(filename) == Stem(filename) \o DotHeic

\* lines 491-521: one iteration over sorted(matching_files)
StereoStep ==
  /\ prog = "a16" /\ pc = "stereo_loop" /\ todo # {}
  /\ \E filename \in {MinName(todo)}, o \in Outcomes :
           /\ o = "ok" => filename \in DOMAIN dir_a
           /\ todo' = todo \ {filename}
           /\ cmds' = << Cmd("spatialPhotoTool", << "-b", "--hfov" >>, filename) >>
           /\ dir_a' = IF o = "ok"
                       THEN Put(dir_a, HeicName(filename),
                                [dir_a[filename] EXCEPT !.state = << "heic" >>])
                       ELSE dir_a
           /\ success_count' = success_count + (IF o = "ok" THEN 1 ELSE 0)
           /\ error_count' = error_count + (IF o = "ok" THEN 0 ELSE 1)
  /\ tool_calls' = tool_calls + 1
  /\ UNCHANGED << env_vars, slr_vars, files_a, order_a, run, skipped_count, pc,
                  status, dir_b, cwd, reported, renames, stages, dir_b0 >>

\* lines 523-526
StereoEnd ==
  /\ prog = "a16" /\ pc = "stereo_loop" /\ todo = {}
  /\ reported' = reported \cup {Msg("Summary", << "stereo" >>)}
  /\ Return("stereo")
  /\ UNCHANGED << env_vars, slr_vars, a16_vars, dir_a, dir_b, cwd, renames, cmds,
                  tool_calls, stages, dir_b0 >>

\* lines 544-548: the files whose lower-cased name ends in .heic
HeicFiles(d) == {f \in DOMAIN d : EndsWith(Lower(f), DotHeic)}

\* lines 535-558
HeicBegin ==
  /\ prog = "a16" /\ pc = "heic"
  /\ stages' = Append(stages, "heic")
  /\ \E files \in {HeicFiles(dir_a)} :
       IF ~exists_a
       THEN /\ reported' = reported \cup {Msg("Error: Directory not found", << "heic" >>)}
            /\ Return("heic")
            /\ UNCHANGED << todo, success_count, error_count >>
       ELSE IF files = {}
       THEN /\ reported' = reported \cup {Msg("No .heic files found", << "heic" >>)}
            /\ Return("heic")
            /\ UNCHANGED << todo, success_count, error_count >>
       ELSE /\ todo' = files
            /\ success_count' = 0
            /\ error_count' = 0
            /\ pc' = "heic_loop"
            /\ UNCHANGED << reported, status >>
  /\ UNCHANGED << env_vars, slr_vars, files_a, order_a, run, skipped_count, dir_a,
                  dir_b, cwd, renames, cmds, tool_calls, dir_b0 >>

\* lines 560-576: one iteration of the move loop; a name already present in the
\* current directory is left where it is
HeicStep ==
  /\ prog = "a16" /\ pc = "heic_loop" /\ todo # {}
  /\ \E filename \in todo, raises \in MoveRaises :
       LET present == filename \in DOMAIN cwd
           moved   == ~present /\ ~raises /\ filename \in DOMAIN dir_a
       IN  /\ todo' = todo \ {filename}
           /\ present => ~raises
           /\ dir_a' = IF moved THEN Remove(dir_a, filename) ELSE dir_a
           /\ cwd' = IF moved THEN Put(cwd, filename, dir_a[filename]) ELSE cwd
           /\ success_count' = success_count + (IF moved THEN 1 ELSE 0)
           /\ error_count' = error_count + (IF ~present /\ ~moved THEN 1 ELSE 0)
  /\ UNCHANGED << env_vars, slr_vars, files_a, order_a, run, skipped_count, pc,
                  status, dir_b, reported, renames, cmds, tool_calls, stages, dir_b0 >>

\* lines 578-581: the summary; main returns
HeicEnd ==
  /\ prog = "a16" /\ pc = "heic_loop" /\ todo = {}
  /\ reported' = reported \cup {Msg("Summary", << "heic" >>)}
  /\ Return("heic")
  /\ UNCHANGED << env_vars, slr_vars, a16_vars, dir_a, dir_b, cwd, renames, cmds,
                  tool_calls, stages, dir_b0 >>

(***************************************************************************)
(* Initial states and specifications                                       *)
(***************************************************************************)
MaxPipeFiles == 1

Img(date, time) == << "I", "M", "G" >> \o date \o << "-" >> \o time \o DotJpg

Date0704 == << "2", "0", "2", "3", "0", "7", "0", "4" >>
Date0705 == << "2", "0", "2", "3", "0", "7", "0", "5" >>
Date9999 == << "9", "9", "9", "9", "9", "9", "9", "9" >>
Time1530 == << "1", "5", "3", "0", "0", "0" >>
Time9999 == << "9", "9", "9", "9", "9", "9" >>

\* the camera files of the left and of the right directory
A16PoolLeft == { Img(Date0704, Time1530), Img(Date9999, Time9999) }

A16PoolRight == { Img(Date0704, Time1530), Img(Date0705, Time1530) }

Trip == << "t", "r", "i", "p" >>
Hike == << "h", "i", "k", "e" >>
Walk == << "w", "a", "l", "k" >>
Ext(e) == Tail(e)

\* lens-corrected files as match_and_rename_files finds them
PairPoolA ==
  { NewFilename(Trip, << "7" >>, Ext(DotJpg)), NewFilename(Walk, << "7" >>, Ext(DotJpg)),
    NewFilename(Trip, << "8" >>, Ext(DotJpg)), << "n", ".", "t", "x", "t" >> }

PairPoolB ==
  { NewFilename(Hike, << "7" >>, Ext(DotJpg)), NewFilename(Hike, << "7" >>, Ext(DotTiff)),
    NewFilename(Trip, << "7" >>, Ext(DotJpg)), NewFilename(Hike, << "9" >>, Ext(DotJpg)),
    NewFilename(NewFilename(Hike, << "7" >>, << "x" >>), << "7" >>, Ext(DotJpg)),
    << "n", ".", "t", "x", "t" >> }

InitCommon ==
  /\ status = "running"
  /\ cwd = EmptyDir
  /\ folder1_images = <<>>
  /\ folder2_images = <<>>
  /\ i = 1
  /\ todo = {}
  /\ files_a = EmptyDir
  /\ order_a = <<>>
  /\ run = 0
  /\ success_count = 0
  /\ skipped_count = 0
  /\ error_count = 0
  /\ reported = {}
  /\ count_report = <<>>
  /\ renames = <<>>
  /\ cmds = <<>>
  /\ tool_calls = 0
  /\ stages = <<>>
  /\ dir_b0 = dir_b

\* the directories a run starts on: each existing or not, holding up to k files
InitDirs(poolA, poolB, k) ==
  /\ exists_a \in BOOLEAN
  /\ exists_b \in BOOLEAN
  /\ dir_a \in {DirOf("A", S) : S \in IF exists_a THEN UpTo(poolA, k) ELSE {{}}}
  /\ dir_b \in {DirOf("B", S) : S \in IF exists_b THEN UpTo(poolB, k) ELSE {{}}}

InitSlr ==
  /\ prog = "slr"
  /\ pc = "start"
  /\ platform \in {"posix", "nt"}
  /\ move_faults = FALSE
  /\ spatial_params \in BOOLEAN
  /\ InitDirs(SlrPool1, SlrPool2, MaxFiles)
  /\ InitCommon

InitA16 ==
  /\ prog = "a16"
  /\ pc = "start"
  /\ platform = "posix"
  /\ move_faults \in BOOLEAN
  /\ spatial_params = TRUE
  /\ InitDirs(A16PoolLeft, A16PoolRight, MaxPipeFiles)
  /\ InitCommon

\* match_and_rename_files called twice in a row on two existing directories, by
\* an OS that performs every move
InitPair ==
  /\ prog = "pair"
  /\ pc = "match"
  /\ platform = "posix"
  /\ move_faults = FALSE
  /\ spatial_params = TRUE
  /\ exists_a = TRUE
  /\ exists_b = TRUE
  /\ dir_a \in {DirOf("A", S) : S \in UpTo(PairPoolA, MaxFiles)}
  /\ dir_b \in {DirOf("B", S) : S \in UpTo(PairPoolB, MaxFiles)}
  /\ InitCommon

Init == InitSlr \/ InitA16

Next ==
  \/ SlrCheckFolders
  \/ SlrList
  \/ SlrMatchStep
  \/ SlrReload
  \/ SlrRotate1Step
  \/ SlrRotate2Step
  \/ SlrAlignStep
  \/ SlrExifStep
  \/ SlrSpatialStep
  \/ SlrNextStage
  \/ MainCheck
  \/ LensBegin
  \/ LensStep
  \/ LensEnd
  \/ MatchBegin
  \/ MatchScanA
  \/ MatchAfterA
  \/ MatchScanB
  \/ MatchSummary
  \/ AlignBegin
  \/ AlignStep
  \/ AlignEnd
  \/ ExifBegin
  \/ ExifStep
  \/ ExifEnd
  \/ DatetimeBegin
  \/ DatetimeStep
  \/ DatetimeEnd
  \/ StereoBegin
  \/ StereoStep
  \/ StereoEnd
  \/ HeicBegin
  \/ HeicStep
  \/ HeicEnd

\* both drivers, from their command lines
Spec == Init /\ [][Next]_vars

NextA16 ==
  \/ MainCheck
  \/ LensBegin
  \/ LensStep
  \/ LensEnd
  \/ MatchBegin
  \/ MatchScanA
  \/ MatchAfterA
  \/ MatchScanB
  \/ MatchSummary
  \/ AlignBegin
  \/ AlignStep
  \/ AlignEnd
  \/ ExifBegin
  \/ ExifStep
  \/ ExifEnd
  \/ DatetimeBegin
  \/ DatetimeStep
  \/ DatetimeEnd
  \/ StereoBegin
  \/ StereoStep
  \/ StereoEnd
  \/ HeicBegin
  \/ HeicStep
  \/ HeicEnd

\* the a16spatial driver is a sequential program whose external commands
\* return: a step that can be taken is taken
FairSpec == InitA16 /\ [][NextA16]_vars /\ WF_vars(NextA16)

NextPair ==
  \/ MatchBegin
  \/ MatchScanA
  \/ MatchAfterA
  \/ MatchScanB
  \/ MatchSummary

\* match_and_rename_files alone, called twice
SpecPair == InitPair /\ [][NextPair]_vars

\* names a directory of aligned images may hold
SbsTiffName(date, time) == << "I", "M", "G" >> \o date \o << "-" >> \o time \o DashSbs \o DotTiff

Date1301 == << "2", "0", "2", "3", "1", "3", "0", "1" >>
Date0229 == << "2", "0", "2", "3", "0", "2", "2", "9" >>
DateLeap == << "2", "0", "2", "4", "0", "2", "2", "9" >>
Time2460 == << "2", "4", "0", "0", "0", "0" >>
Time2359 == << "2", "3", "5", "9", "5", "9" >>

StampPool ==
  { SbsTiffName(Date0704, Time1530), SbsTiffName(Date9999, Time9999),
    SbsTiffName(Date1301, Time1530), SbsTiffName(Date0229, Time1530),
    SbsTiffName(DateLeap, Time2359), SbsTiffName(Date0704, Time2460),
    Trip \o << "-", "7" >> \o DashSbs \o DotTiff,
    << "n", ".", "t", "x", "t" >> }

\* set_datetime_from_filename called on one existing directory
InitStamp ==
  /\ prog = "stamp"
  /\ pc = "datetime"
  /\ platform = "posix"
  /\ move_faults = FALSE
  /\ spatial_params = TRUE
  /\ exists_a = TRUE
  /\ exists_b = TRUE
  /\ dir_a \in {DirOf("A", S) : S \in UpTo(StampPool, MaxFiles)}
  /\ dir_b = EmptyDir
  /\ InitCommon

NextStamp ==
  \/ DatetimeBegin
  \/ DatetimeStep
  \/ DatetimeEnd

\* set_datetime_from_filename alone
SpecStamp == InitStamp /\ [][NextStamp]_vars

\* image names whose keys exercise natural_sort_key: digit runs of different
\* lengths, leading zeros, upper and lower case, no digits at all, and a
\* superscript digit between decimal digits
Img2Upper == Name(<< "I", "M", "G", "2" >>, DotJpg)
Img10Upper == Name(<< "I", "M", "G", "1", "0" >>, DotJpg)
Img2Lower == Name(<< "i", "m", "g", "2" >>, DotJpg)
NumberPool ==
  { Name(<< "0", "2" >>, DotJpg), Name(<< "2" >>, DotJpg),
    Name(<< "1", "0" >>, << ".", "J", "P", "G" >>) }
KeyPool ==
  NumberPool \cup
  { Img2Upper, Img10Upper, Img2Lower, Name(<< "x" >>, DotJpg),
    Name(<< "1", SupTwo, "2" >>, DotJpg) }

\* process_images at the listing of two existing folders
InitSort ==
  /\ prog = "slr"
  /\ pc = "list"
  /\ platform = "posix"
  /\ move_faults = FALSE
  /\ spatial_params = TRUE
  /\ exists_a = TRUE
  /\ exists_b = TRUE
  /\ dir_a \in {DirOf("A", S) : S \in UpTo(KeyPool, MaxFiles)}
  /\ dir_b \in {DirOf("B", S) : S \in UpTo(NumberPool, MaxFiles)}
  /\ InitCommon

NextSort == SlrList

\* the listing and natural sort of process_images alone
SpecSort == InitSort /\ [][NextSort]_vars

\* main from match_and_rename_files through align_stereo_files, on the
\* lens-corrected files of two existing directories
InitThread ==
  /\ prog = "a16"
  /\ pc = "match"
  /\ platform = "posix"
  /\ move_faults \in BOOLEAN
  /\ spatial_params = TRUE
  /\ exists_a = TRUE
  /\ exists_b = TRUE
  /\ dir_a \in {DirOf("A", S) : S \in UpTo(PairPoolA, MaxFiles)}
  /\ dir_b \in {DirOf("B", S) : S \in UpTo(PairPoolB, MaxFiles)}
  /\ InitCommon

NextThread ==
  \/ MatchBegin
  \/ MatchScanA
  \/ MatchAfterA
  \/ MatchScanB
  \/ MatchSummary
  \/ AlignBegin
  \/ AlignStep
  \/ AlignEnd

\* pairing followed by alignment
SpecThread == InitThread /\ [][NextThread]_vars

(***************************************************************************)
(* Claims                                                                  *)
(***************************************************************************)
\* the number of image files in a directory
ImageCount(d) == Cardinality({f \in DOMAIN d : IsImage(f)})

\* pairing is under way or has just finished, in either driver
Pairing == pc \in {"step1", "match_b"}

\* C1: in both pairing strategies a rename onto a name that already exists in
\* side B never replaces the file there: every file side B held before pairing
\* is still there with its content, so side B holds as many files as before.
C1_RenameNeverReplaces ==
  Pairing =>
    /\ \A f \in DOMAIN dir_b0 : \E g \in DOMAIN dir_b : dir_b[g] = dir_b0[f]
    /\ Cardinality(DOMAIN dir_b) = Cardinality(DOMAIN dir_b0)

\* index-based pairing has gone through all positions without an exception
IndexPairingDone == prog = "slr" /\ pc = "step1" /\ i > Len(folder1_images)

\* C2: after index-based pairing, for every position k the file that was k-th
\* in folder2's sorted list carries the name of the k-th file of folder1's
\* sorted list, folder2 holds exactly one image per folder1 image name, and no
\* position whose names agree was renamed.
C2_IndexPairingResult ==
  IndexPairingDone =>
    /\ \A k \in 1..Len(folder1_images) :
         /\ folder1_images[k] \in DOMAIN dir_b
         /\ dir_b[folder1_images[k]] = dir_b0[folder2_images[k]]
    /\ {f \in DOMAIN dir_b : IsImage(f)} = {folder1_images[k] : k \in 1..Len(folder1_images)}
    /\ \A k \in 1..Len(renames) : renames[k][1] # renames[k][2]

\* C3: a fatal precondition failure (a missing directory in either driver,
\* differing image counts in process_images) ends the run at once: no rename,
\* no external command, no stage; a count mismatch prints both counts; and no
\* run goes past its checks with a failing precondition.
C3_FatalPreconditionAborts ==
  /\ status \in {"exit1", "returned"} =>
       /\ renames = <<>> /\ tool_calls = 0 /\ cmds = <<>> /\ stages = <<>>
       /\ dir_b = dir_b0 /\ pc = "exited"
  /\ (~exists_a \/ ~exists_b) => pc \in {"start", "exited"}
  /\ (prog = "slr" /\ ImageCount(dir_a) # ImageCount(dir_b0)) =>
       pc \in {"start", "list", "exited"}
  /\ (prog = "slr" /\ pc = "exited" /\ exists_a /\ exists_b) =>
       /\ count_report = << ImageCount(dir_a), ImageCount(dir_b) >>
       /\ ImageCount(dir_a) # ImageCount(dir_b)
  /\ count_report # <<>> => status = "exit1"

\* C3 witness: process_images ended on a count mismatch
C3_Witness ==
  /\ prog = "slr" /\ status = "exit1" /\ exists_a /\ exists_b
  /\ count_report # <<>> /\ count_report[1] # count_report[2]
\* the files of directory d that match the pattern with the given number
WithNumber(d, number) ==
  {f \in DOMAIN d : PatternMatch(f).matched /\ PatternMatch(f).number = number}

\* the numbers of side A's pattern-matching files: the keys of its mapping
KeysOfA == {PatternMatch(f).number : f \in {g \in DOMAIN dir_a : PatternMatch(g).matched}}

\* what C4 requires of the step that handles the side-B file filename
C4_Case(filename) ==
  LET m == PatternMatch(filename)
      p == files_a[m.number].prefix
      target == p \o << "-" >> \o m.number \o << "-", "c", "o", "r", "r", "e", "c", "t", "e", "d", "." >>
                  \o m.extension
  IN  m.matched =>
        IF m.number \notin KeysOfA
        THEN \* not a key: reported, nothing renamed, the loop goes on
             /\ dir_b' = dir_b /\ renames' = renames
             /\ Msg("No match found in directory for number", filename) \in reported'
             /\ success_count' = success_count /\ skipped_count' = skipped_count
             /\ pc' = "match_b" /\ status' = status
        ELSE /\ \E g \in WithNumber(dir_a, m.number) : PatternMatch(g).prefix = p
             /\ IF m.prefix = p
                THEN \* same prefix: skipped
                     /\ dir_b' = dir_b /\ renames' = renames
                     /\ skipped_count' = skipped_count + 1
                     /\ success_count' = success_count
                ELSE \* other prefix: renamed, keeping number and extension
                     /\ target \in DOMAIN dir_b' /\ dir_b'[target] = dir_b[filename]
                     /\ filename \notin DOMAIN dir_b'
                     /\ renames' = Append(renames, << filename, target >>)
                     /\ success_count' = success_count + 1
                     /\ skipped_count' = skipped_count

\* C4: match_and_rename_files handles each side-B file that matches the pattern
\* in exactly one of three ways: skipped and counted when its number is a key
\* of side A's mapping with the same prefix; renamed to side A's prefix with
\* its own number and extension when the prefix differs; reported as having no
\* match, with nothing renamed and the loop going on, when the number is no key.
C4_ThreeWay ==
  [][(pc = "match_b" /\ todo' # todo) =>
       C4_Case(CHOOSE f \in todo : f \notin todo')]_vars

\* C4 witness: over the runs one file was renamed, one skipped, one reported
C4_Witness ==
  /\ prog = "pair" /\ renames # <<>>
  /\ \E m \in reported : m.kind = "Skipping - prefix already matches"
  /\ \E m \in reported : m.kind = "No match found in directory for number"

\* C5: identifier-based pairing is idempotent: the second run over the same
\* two directories renames nothing, and counts as skipped every side-B file
\* whose number is a key of side A's mapping.
C5_Idempotent ==
  (prog = "pair" /\ run = 2) =>
    /\ pc \in {"match_a", "match_b", "done"} => dir_b = dir_b0
    /\ pc \in {"match_b", "done"} => success_count = 0
    /\ pc = "done" =>
         skipped_count =
           Cardinality({f \in DOMAIN dir_b :
                          PatternMatch(f).matched /\ PatternMatch(f).number \in KeysOfA})

\* C5 witness: the first run renamed a file and the second run skipped
C5_Witness ==
  prog = "pair" /\ run = 2 /\ pc = "done" /\ renames # <<>> /\ skipped_count > 0
\* identifier-based pairing has handled every listed file of side B
IdentifierPairingDone == prog = "pair" /\ pc = "match_b" /\ todo = {}

\* the files that are not half of a pair of one side-A and one side-B file
\* with the same number
Unmatched ==
  {f \in DOMAIN dir_a :
     ~PatternMatch(f).matched \/ WithNumber(dir_b, PatternMatch(f).number) = {}}
  \cup
  {f \in DOMAIN dir_b :
     ~PatternMatch(f).matched \/ WithNumber(dir_a, PatternMatch(f).number) = {}}

\* C6: after identifier-based pairing every key of the mapping stands for
\* exactly one file on side A and one on side B, and every file outside a
\* matched pair was reported: a side-A file without partner and a number that
\* two side-A files share are reported, never dropped.
C6_PairingResult ==
  IdentifierPairingDone =>
    /\ \A n \in DOMAIN files_a :
         /\ Cardinality(WithNumber(dir_a, n)) = 1
         /\ Cardinality(WithNumber(dir_b, n)) = 1
    /\ \A f \in Unmatched : \E m \in reported : m.what = f
    /\ \A n \in KeysOfA :
         Cardinality(WithNumber(dir_a, n)) > 1 =>
           \E f \in WithNumber(dir_a, n) : \E m \in reported : m.what = f

\* lines 83-86 over whole lists: the renames index-based pairing performs for
\* the sorted lists f1 and f2
IndexRenames(f1, f2) ==
  SelectSeq([k \in 1..Len(f1) |-> << f2[k], f1[k] >>], LAMBDA r : r[1] # r[2])

\* C7: index-based pairing is deterministic: whatever order the directory
\* listings come in, equal sort keys included, the same renames are performed.
C7_Deterministic ==
  IndexPairingDone =>
    \A l1 \in Listings(DOMAIN dir_a), l2 \in Listings(DOMAIN dir_b0) :
      IndexRenames(NaturalSorted(ImagesOf(l1)), NaturalSorted(ImagesOf(l2))) = renames

\* lines 302-311 over a whole listing: side A's mapping
RECURSIVE ScanA(_, _)
ScanA(listing, fa) ==
  IF listing = <<>> THEN fa
  ELSE LET m == PatternMatch(Head(listing))
       IN  ScanA(Tail(listing),
                 IF m.matched THEN Put(fa, m.number, FileEntry(Head(listing), m)) ELSE fa)

\* lines 325-358 over a whole listing: side B after the loop, every move done
RECURSIVE ScanB(_, _, _)
ScanB(listing, d, fa) ==
  IF listing = <<>> THEN d
  ELSE LET dec == MatchDecision(Head(listing), PatternMatch(Head(listing)), d, fa)
       IN  ScanB(Tail(listing),
                 IF dec.what = "rename" THEN ShutilMove(d, Head(listing), dec.target).fs
                 ELSE d,
                 fa)

\* C8: identifier-based pairing does not depend on the order of the listings:
\* every order of side A's and side B's listing, numbers that occur twice on a
\* side included, leaves side B as this run left it.
C8_OrderIndependent ==
  (IdentifierPairingDone /\ run = 1) =>
    \A la \in Listings(DOMAIN dir_a), lb \in Listings(DOMAIN dir_b0) :
      ScanB(lb, dir_b0, ScanA(la, EmptyDir)) = dir_b

\* C9: in process_images a failing tool invocation (a nonzero exit status or an
\* executable that is not found) never ends the run: no traceback comes from
\* one, neither out of run_command nor out of the code that uses its result.
C9_ToolFailureNeverAborts ==
  prog = "slr" =>
    \A m \in reported :
      m.kind = "Traceback" => m.what \notin {<< "TypeError" >>, << "FileNotFoundError" >>}

\* the order in which main of a16spatial.py calls the batch functions
StageOrder ==
  << "lens_left", "lens_right", "match", "align", "exif", "datetime", "stereo", "heic" >>

\* every stage begun so far was begun in StageOrder, and a stage begins only
\* when the stages before it have begun and no file of theirs is left over
C10_InOrder ==
  prog = "a16" =>
    /\ Len(stages) <= Len(StageOrder) /\ stages = SubSeq(StageOrder, 1, Len(stages))
    /\ \A k \in 1..Len(StageOrder) :
         pc = StageOrder[k] => (Len(stages) = k - 1 /\ todo = {})
    /\ pc = "done" => stages = StageOrder

\* C10: main of a16spatial.py runs lens correction left, lens correction right,
\* pairing, alignment, EXIF copy, datetime, stereo, HEIC move in this order,
\* each stage beginning only after the one before it has gone through all its
\* files, and with both directories present every stage is reached whatever
\* failed in the stages before.
C10_StageOrder ==
  /\ []C10_InOrder
  /\ (prog = "a16" /\ exists_a /\ exists_b) ~> (pc = "done" /\ stages = StageOrder)

\* C10 witness: the run went through all stages although a file failed
C10_Witness ==
  /\ prog = "a16" /\ pc = "done" /\ stages = StageOrder
  /\ \E m \in reported : m.kind \in {"Error processing", "Error renaming"}
\* the sum of the three counters a summary prints
Counted == success_count + skipped_count + error_count

\* C11: every a16spatial batch operation that reaches its summary has counted
\* each file of its batch in exactly one of processed/skipped/errored: at the
\* summary of match_and_rename_files, copy_exif_tags and
\* set_datetime_from_filename the three counters sum to the number of files
\* the loop examined.
C11_ThreeCounters ==
  /\ (prog \in {"a16", "pair"} /\ pc = "match_b" /\ todo = {}) =>
       Counted = Cardinality(DOMAIN dir_b0)
  /\ (prog = "a16" /\ pc = "exif_loop" /\ todo = {}) =>
       Counted = Cardinality(DOMAIN dir_a)
  /\ (prog = "a16" /\ pc = "datetime_loop" /\ todo = {}) =>
       Counted = Cardinality(SbsTiffs(dir_a))
\* what C12 requires of the step that handles the file filename
C12_Case(filename) ==
  LET m     == DateSearch(filename)
      d     == m.date_part
      t     == m.time_part
      stamp == << d[1], d[2], d[3], d[4], ":", d[5], d[6], ":", d[7], d[8], " ",
                  t[1], t[2], ":", t[3], t[4], ":", t[5], t[6] >>
  IN  \* the loop goes on with the remaining files
      /\ pc' = "datetime_loop" /\ status' = status /\ todo' = todo \ {filename}
      /\ IF ~m.matched
         THEN \* no IMG<8 digits>-<6 digits>: a skip
              /\ skipped_count' = skipped_count + 1
              /\ error_count' = error_count /\ success_count' = success_count
              /\ tool_calls' = tool_calls /\ dir_a' = dir_a
         ELSE IF ~StrptimeAccepts(stamp)
         THEN \* not a date and time of the calendar: an error, no tool
              /\ error_count' = error_count + 1
              /\ skipped_count' = skipped_count /\ success_count' = success_count
              /\ tool_calls' = tool_calls /\ dir_a' = dir_a
         ELSE \* valid: one invocation with the string built from the digits
              /\ tool_calls' = tool_calls + 1
              /\ cmds' = << Cmd("exiftool", stamp, filename) >>
              /\ skipped_count' = skipped_count
              /\ success_count' + error_count' = success_count + error_count + 1
      /\ filename = SbsTiffName(Date9999, Time9999) =>
           (error_count' = error_count + 1 /\ tool_calls' = tool_calls)
      /\ filename = SbsTiffName(Date1301, Time1530) =>
           (error_count' = error_count + 1 /\ tool_calls' = tool_calls)
      /\ filename = SbsTiffName(Date0704, Time1530) =>
           cmds'[1].arg = << "2", "0", "2", "3", ":", "0", "7", ":", "0", "4", " ",
                             "1", "5", ":", "3", "0", ":", "0", "0" >>

\* C12: set_datetime_from_filename counts an -sbs.tiff name without
\* IMG<8 digits>-<6 digits> as a skip; counts a name whose digits are no
\* calendar date and time (IMG99999999-999999) as an error with no metadata-tool
\* invocation; for a valid name (IMG20230704-153000) builds
\* YYYY:MM:DD HH:MM:SS from the digits and invokes the metadata tool exactly
\* once; and in each case goes on with the remaining files.
C12_DatetimeCases ==
  [][(pc = "datetime_loop" /\ todo' # todo) =>
       C12_Case(CHOOSE f \in todo : f \notin todo')]_vars

\* C12 witness: a run stamped one file and rejected another without a tool call
C12_Witness ==
  /\ prog = "stamp" /\ pc = "done"
  /\ success_count = 1 /\ error_count = 1 /\ skipped_count = 0 /\ tool_calls = 1

\* the key lists of s and t have the same kind of segment, integer or string,
\* at every position they share
SameKinds(s, t) ==
  LET ks == natural_sort_key(s)
      kt == natural_sort_key(t)
  IN  \A p \in (1..Len(ks)) \cap (1..Len(kt)) : ks[p].int = kt[p].int

\* key(s) against key(t), for names whose keys natural_sort_key returns
KeyOrder(s, t) == KeyCmp(natural_sort_key(s), natural_sort_key(t))

\* the names natural_sort_key returns a key for
Keyed(names) == {f \in names : ~KeyRaises(f)}

\* C13: natural_sort_key orders filenames with digit runs by numeric value and
\* the other runs case-insensitively: key("IMG2.jpg") < key("IMG10.jpg"),
\* key("img2.jpg") = key("IMG2.jpg"), the digit segments of "02" and "2" are
\* equal, any two keys are comparable because their segments are of the same
\* kind position by position, and the lists the sort leaves are in key order
C13_NaturalOrder ==
  (prog = "slr" /\ pc \in {"step1", "exited"}) =>
    /\ KeyOrder(Img2Upper, Img10Upper) = "lt"
    /\ KeyOrder(Img10Upper, Img2Upper) = "gt"
    /\ natural_sort_key(Img2Lower) = natural_sort_key(Img2Upper)
    /\ natural_sort_key(<< "0", "2" >>)[2] = natural_sort_key(<< "2" >>)[2]
    /\ natural_sort_key(<< "0", "2" >>)[2].int
    /\ \A s \in Keyed(DOMAIN dir_a \cup DOMAIN dir_b),
          t \in Keyed(DOMAIN dir_a \cup DOMAIN dir_b) :
         /\ SameKinds(s, t)
         /\ KeyOrder(s, t) \in {"lt", "eq", "gt"}
         /\ (KeyOrder(s, t) = "lt") <=> (KeyOrder(t, s) = "gt")
         /\ (Lower(s) = Lower(t)) => KeyOrder(s, t) = "eq"
    /\ \A lst \in {folder1_images, folder2_images} :
         \A j \in 1..Len(lst), k \in 1..Len(lst) :
           j < k => KeyOrder(lst[j], lst[k]) \in {"lt", "eq"}
    /\ \A j \in 1..Len(folder1_images), k \in 1..Len(folder1_images) :
         (folder1_images[j] = Img2Upper /\ folder1_images[k] = Img10Upper) => j < k

\* the sort has put IMG2.jpg before IMG10.jpg in one folder and 2.jpg before
\* 10.JPG in the other
C13_Witness ==
  /\ prog = "slr" /\ pc = "step1"
  /\ folder1_images = << Img2Upper, Img10Upper >>
  /\ folder2_images = << Name(<< "2" >>, DotJpg),
                          Name(<< "1", "0" >>, << ".", "J", "P", "G" >>) >>

\* the transform the table assigns to an orientation value: 2 horizontal flip,
\* 3 rotate 180, 4 vertical flip, 5 transpose, 6 rotate 90, 7 transverse,
\* 8 rotate 270
TableTransform ==
  [v \in 2..8 |->
     CASE v = 2 -> << "-flip", "horizontal" >>
       [] v = 3 -> << "-rotate", "180" >>
       [] v = 4 -> << "-flip", "vertical" >>
       [] v = 5 -> << "-transpose" >>
       [] v = 6 -> << "-rotate", "90" >>
       [] v = 7 -> << "-transverse" >>
       [] v = 8 -> << "-rotate", "270" >>]

\* one iteration of a rotation loop that read orientation value v for image img
\* of directory d (d2 after the iteration)
C14_Case(img, d, d2) ==
  LET v      == IntOf(cmds'[1].out)
      rotate == {k \in 1..Len(cmds') : cmds'[k].tool = "jpegtran"}
      temp   == [d[img] EXCEPT !.state = << "rotated" >>]
  IN  /\ v = 1 =>
           /\ rotate = {}
           /\ d2 = d
           /\ cwd' = cwd
           /\ pc' = pc
      /\ v \in 2..8 =>
           /\ rotate = {2}
           /\ cmds'[2] = Cmd("jpegtran", TableTransform[v], img)
           /\ pc' # "crashed" =>
                /\ cmds'[3] = Cmd("exiftool", << "-Orientation=1" >>, RotatedJpg)
                /\ d2 = [d EXCEPT ![img] = temp]
                /\ RotatedJpg \notin DOMAIN cwd'
           /\ pc' = "crashed" =>
                /\ d2 = d
                /\ RotatedJpg \in DOMAIN cwd' => cwd'[RotatedJpg] = temp

\* C14: in the rotation stage of process_images an image whose orientation
\* value is 1 causes no jpegtran invocation and its file is left as it was; a
\* value v in 2..8 causes exactly one jpegtran invocation with the transform the
\* table assigns to v, and when the iteration completes the original holds
\* what jpegtran wrote to rotated.jpg, which is gone from the current directory
C14_RotationTable ==
  [][(prog = "slr" /\ pc \in {"rot1", "rot2"} /\ i' = i + 1
        /\ IsDigitStr(cmds'[1].out)) =>
       IF pc = "rot1" THEN C14_Case(folder1_images[i], dir_a, dir_a')
       ELSE C14_Case(folder2_images[i], dir_b, dir_b')]_vars

\* an image of folder1 that reported orientation 6 was rotated by 90 degrees
\* and renamed over the original
C14_Witness ==
  /\ prog = "slr" /\ pc = "rot1" /\ i = 2
  /\ Len(cmds) = 3
  /\ cmds[1].out = << "6" >>
  /\ cmds[2] = Cmd("jpegtran", << "-rotate", "90" >>, folder1_images[1])
  /\ dir_a[folder1_images[1]].state = << "rotated" >>
  /\ RotatedJpg \notin DOMAIN cwd

\* the side-B names identifier-based pairing matched: the targets of its renames
\* and the files it skipped as already carrying side A's prefix
C15_Matched ==
  {renames[k][2] : k \in 1..Len(renames)} \cup
  {msg.what : msg \in {r \in reported : r.kind = "Skipping - prefix already matches"}}

\* <prefix>-<number>-sbs.tiff for a name of the pairing pattern
C15_SbsName(filename) ==
  LET m == PatternMatch(filename)
  IN  m.prefix \o << "-" >> \o m.number \o DashSbs \o DotTiff

\* C15: in the a16spatial pipeline every pair that identifier-based pairing
\* matched (a side-B file it renamed, or skipped as already having side A's
\* prefix) is located by the alignment that follows: when alignment has
\* finished the name exists in both directories, and with no alignment error
\* its output <prefix>-<number>-sbs.tiff is in the left directory
C15_MatchedPairsAligned ==
  (prog = "a16" /\ pc = "exif" /\ stages = << "match", "align" >>) =>
    \A filename \in C15_Matched :
      /\ filename \in DOMAIN dir_a
      /\ filename \in DOMAIN dir_b
      /\ filename \in MatchingFiles(dir_a, dir_b)
      /\ AlignOutput(filename) = C15_SbsName(filename)
      /\ error_count = 0 => C15_SbsName(filename) \in DOMAIN dir_a

=============================================================================
